---- MODULE Spec2Model ----
(***************************************************************************)
(* The Linktree profile crawler: main, crawlLinktreeProfile,               *)
(* saveResultToFile and downloadProfileImage.                              *)
(*                                                                         *)
(* One run of the program is one behaviour.  The page is a sequence of the *)
(* nodes the five selectors can match, in document order.  Texts that the  *)
(* code reads through colly's ChildText / ChildAttr (which apply           *)
(* strings.TrimSpace) are sequences of characters; texts and attributes    *)
(* read raw (e.Text, e.Attr) are strings.                                  *)
(***************************************************************************)
EXTENDS Integers, Sequences, FiniteSets, TLC

VARIABLES
    args,      \* os.Args
    pc,        \* position of main: "start", "html", "save", "image", "exit"
    doc,       \* the parsed page: the matched nodes in document order
    pending,   \* the OnHTML callback invocations the collector has still to make
    result,    \* crawlLinktreeProfile's local `result`
    ret,       \* main's `result`: the Result returned by crawlLinktreeProfile
    err,       \* main's `err`: the error crawlLinktreeProfile returned ("nil" if none)
    saveErr,   \* the error saveResultToFile returned
    imgErr,    \* the error downloadProfileImage returned
    fs,        \* the working directory: file name -> content
    fs0,       \* the working directory as the run found it
    out,       \* lines printed, in order: <<channel, message, detail>>
    calls      \* the stages entered, in order

vars == <<args, pc, doc, pending, result, ret, err, saveErr, imgErr, fs, fs0, out, calls>>

----------------------------------------------------------------------------
(* Bounds of the model *)

\* longest page, in matched nodes
MaxNodes == 3

\* longest page of the rule-order specification
MaxRuleNodes == 5

----------------------------------------------------------------------------
(* Inputs *)

Identifiers == {"jane"}

TitleTexts   == {"", "T"}
ProfileTexts == {"", "P"}
ImageSrcs    == {"", "u1", "u2"}
LinkLabels   == {<<>>, <<"a">>, <<"a", " ">>}
LinkHrefs    == {"", "h1", "h2"}
IconNames    == {<<" ">>, <<"i">>}
IconHrefs    == {"", "g1"}

Nodes ==
         [kind : {"title"},   text : TitleTexts]
    \cup [kind : {"link"},    label : LinkLabels, href : LinkHrefs]
    \cup [kind : {"icon"},    name : IconNames, href : IconHrefs]
    \cup [kind : {"profile"}, text : ProfileTexts]
    \cup [kind : {"image"},   src : ImageSrcs]

Docs == UNION {[1..n -> Nodes] : n \in 0..MaxNodes}

\* the pages of the rule-order specification: one node per rule, each with
\* something to write
RuleNodes ==
    {[kind |-> "title", text |-> "T"],
     [kind |-> "link", label |-> <<"a">>, href |-> "h1"],
     [kind |-> "icon", name |-> <<"i">>, href |-> "g1"],
     [kind |-> "profile", text |-> "P"],
     [kind |-> "image", src |-> "u1"]}

RuleDocs == UNION {[1..n -> RuleNodes] : n \in 0..MaxRuleNodes}

----------------------------------------------------------------------------
(* Helpers *)

EmptyMap == [x \in {} |-> ""]

Put(m, key, val) == [x \in DOMAIN m \cup {key} |-> IF x = key THEN val ELSE m[x]]

IsSpace(c) == c = " "

RECURSIVE TrimLeft(_)
TrimLeft(s) == IF s # <<>> /\ IsSpace(Head(s)) THEN TrimLeft(Tail(s)) ELSE s

RECURSIVE TrimRight(_)
TrimRight(s) ==
    IF s # <<>> /\ IsSpace(s[Len(s)]) THEN TrimRight(SubSeq(s, 1, Len(s) - 1)) ELSE s

\* strings.TrimSpace
TrimSpace(s) == TrimRight(TrimLeft(s))

\* e.ChildText("div > p") of a link button
ChildText(node) == TrimSpace(node.label)

\* e.ChildAttr("title", "title") of a social icon
ChildAttr(node) == TrimSpace(node.name)

\* var result Result, with both maps made
NewResult ==
    [Links |-> EmptyMap, IconLinks |-> EmptyMap, Title |-> "", ProfileName |-> "",
     ProfileImg |-> ""]

\* Result{}: the maps are nil, which read as empty maps
ZeroResult == NewResult

----------------------------------------------------------------------------
(* The five OnHTML callbacks, as functions of the record and the node *)

OnTitle(r, node) == [r EXCEPT !.Title = node.text]

\* faulty variant: || for &&
OnLinkButton_Or(r, node) ==
    LET linkText == ChildText(node)
        href == node.href
    IN  IF linkText # <<>> \/ href # ""
        THEN [r EXCEPT !.Links = Put(r.Links, linkText, href)]
        ELSE r

\* faulty variant: an existing key is kept
OnLinkButton_FirstWins(r, node) ==
    LET linkText == ChildText(node)
        href == node.href
    IN  IF linkText # <<>> /\ href # "" /\ linkText \notin DOMAIN r.Links
        THEN [r EXCEPT !.Links = Put(r.Links, linkText, href)]
        ELSE r

OnLinkButton(r, node) ==
    LET linkText == ChildText(node)
        href == node.href
    IN  IF linkText # <<>> /\ href # ""
        THEN [r EXCEPT !.Links = Put(r.Links, linkText, href)]
        ELSE r

OnSocialIcon(r, node) ==
    LET iconName == ChildAttr(node)
        href == node.href
    IN  IF iconName # <<>> /\ href # ""
        THEN [r EXCEPT !.IconLinks = Put(r.IconLinks, iconName, href)]
        ELSE r

\* faulty variant: the callback assigns the wrong field
OnProfileTitle_WritesTitle(r, node) == [r EXCEPT !.Title = node.text]

OnProfileTitle(r, node) == [r EXCEPT !.ProfileName = node.text]

\* faulty variant: the image is kept only once a title has been seen
OnProfileImage_NeedsTitle(r, node) ==
    LET imgSrc == node.src
    IN  IF imgSrc # "" /\ r.Title # "" THEN [r EXCEPT !.ProfileImg = imgSrc] ELSE r

\* faulty variant: no check of imgSrc
OnProfileImage_NoGuard(r, node) == [r EXCEPT !.ProfileImg = node.src]

OnProfileImage(r, node) ==
    LET imgSrc == node.src
    IN  IF imgSrc # "" THEN [r EXCEPT !.ProfileImg = imgSrc] ELSE r

\* the callbacks in the order crawlLinktreeProfile registers them
RuleOrder == <<"title", "link", "icon", "profile", "image">>

Callback(rule, r, node) ==
    CASE rule = "title"   -> OnTitle(r, node)
      [] rule = "link"    -> OnLinkButton(r, node)
      [] rule = "icon"    -> OnSocialIcon(r, node)
      [] rule = "profile" -> OnProfileTitle(r, node)
      [] rule = "image"   -> OnProfileImage(r, node)

\* the nodes of d a rule's selector matches, in document order
Matches(d, rule) == SelectSeq(d, LAMBDA n : n.kind = rule)

\* the callback invocations the collector makes on d: for each registered
\* callback in turn, each of its matches in document order
RECURSIVE ScheduleFrom(_, _, _)
ScheduleFrom(order, d, i) ==
    IF i > Len(order) THEN <<>>
    ELSE Matches(d, order[i]) \o ScheduleFrom(order, d, i + 1)

Schedule(d) == ScheduleFrom(RuleOrder, d, 1)

RECURSIVE Fold(_, _, _)
Fold(r, nodes, i) ==
    IF i > Len(nodes) THEN r
    ELSE Fold(Callback(nodes[i].kind, r, nodes[i]), nodes, i + 1)

RECURSIVE FoldRules(_, _, _, _)
FoldRules(r, order, matches, i) ==
    IF i > Len(order) THEN r
    ELSE FoldRules(Fold(r, matches[order[i]], 1), order, matches, i + 1)

\* the record after the rules ran in the given order, each over its own
\* matches in document order
RunRules(order, matches) == FoldRules(NewResult, order, matches, 1)

----------------------------------------------------------------------------
(* Validation, file names, serialization *)

\* faulty variant: a record without links is rejected too
MissingRequired_LinksToo(r) == r.Title = "" \/ r.ProfileName = "" \/ DOMAIN r.Links = {}

\* faulty variant: && for ||
MissingRequired_Both(r) == r.Title = "" /\ r.ProfileName = ""

\* result.Title == "" || result.ProfileName == ""
MissingRequired(r) == r.Title = "" \/ r.ProfileName = ""

\* fmt.Sprintf("https://linktr.ee/%s", profileName)
Link(profileName) == "https://linktr.ee/" \o profileName

JsonFileName(r) == r.ProfileName \o ".json"

ImageFileName(profileName) == profileName \o ".jpg"

\* json.MarshalIndent(result, "", "  "): the fields in declaration order
\* under their json names
Marshal(r) ==
    << <<"links", r.Links>>, <<"icon_links", r.IconLinks>>, <<"title", r.Title>>,
       <<"profile_name", r.ProfileName>>, <<"profile_img", r.ProfileImg>> >>

JsonFile(r) == <<"json", Marshal(r)>>

\* a file of an earlier run
OldFile == <<"old", <<>>>>

\* the body served at imgURL, whole / cut short by a failed copy
ImageFile(imgURL) == <<"image", <<imgURL>>>>
PartialFile(imgURL) == <<"partial", <<imgURL>>>>
EmptyFile == <<"empty", <<>>>>

Println(channel, message, detail) == out' = Append(out, <<channel, message, detail>>)

----------------------------------------------------------------------------
(* The run *)

Init ==
    /\ args \in {<<"crawler">>} \cup {<<"crawler", id>> : id \in Identifiers}
    /\ pc = "start"
    /\ doc = <<>>
    /\ pending = <<>>
    /\ result = NewResult
    /\ ret = ZeroResult
    /\ err = "nil"
    /\ saveErr = "nil"
    /\ imgErr = "nil"
    /\ fs0 \in {EmptyMap,
                [f \in {ImageFileName(id) : id \in Identifiers}
                       \cup {t \o ".json" : t \in ProfileTexts \ {""}} |-> OldFile]}
    /\ fs = fs0
    /\ out = <<>>
    /\ calls = <<>>

\* main, len(os.Args) < 2
Usage ==
    /\ pc = "start"
    /\ Len(args) < 2
    /\ Println("stdout", "Usage: go run main.go [profile_name]", "")
    /\ pc' = "exit"
    /\ UNCHANGED <<args, doc, pending, result, ret, err, saveErr, imgErr, fs, fs0, calls>>

\* collector.Visit(link) fails, before or after the request was announced:
\* no callback runs, crawlLinktreeProfile returns the wrapped error and
\* main reports it and returns
VisitFails ==
    /\ pc = "start"
    /\ Len(args) >= 2
    /\ calls' = Append(calls, "fetch")
    /\ err' = "failed to visit"
    /\ ret' = ZeroResult
    /\ \E requested \in BOOLEAN :
          out' = out \o (IF requested THEN << <<"stdout", "Visiting:", Link(args[2])>> >>
                                      ELSE <<>>)
                     \o << <<"stderr", "Error during crawling", "failed to visit">> >>
    /\ pc' = "exit"
    /\ UNCHANGED <<args, doc, pending, result, saveErr, imgErr, fs, fs0>>

\* collector.Visit(link) fetches and parses the page; the callbacks follow
Visit(pages) ==
    /\ pc = "start"
    /\ Len(args) >= 2
    /\ \E d \in pages : doc' = d
    /\ calls' = Append(calls, "fetch")
    /\ Println("stdout", "Visiting:", Link(args[2]))
    /\ result' = NewResult
    /\ pending' = Schedule(doc')
    /\ pc' = "html"
    /\ UNCHANGED <<args, ret, err, saveErr, imgErr, fs, fs0>>

VisitOk == Visit(Docs)

\* the same on the pages of the rule-order specification
VisitRulePage == Visit(RuleDocs)

\* the next callback invocation the collector makes, if its rule is `rule`
Invoke(rule) ==
    /\ pc = "html"
    /\ pending # <<>>
    /\ Head(pending).kind = rule
    /\ result' = Callback(rule, result, Head(pending))
    /\ pending' = Tail(pending)
    /\ UNCHANGED <<args, pc, doc, ret, err, saveErr, imgErr, fs, fs0, out, calls>>

TitleCallback == Invoke("title")
LinkButtonCallback == Invoke("link")
SocialIconCallback == Invoke("icon")
ProfileTitleCallback == Invoke("profile")
ProfileImageCallback == Invoke("image")

\* after collector.Wait(): the mandatory fields are missing
ValidateFails ==
    /\ pc = "html"
    /\ pending = <<>>
    /\ MissingRequired(result)
    /\ calls' = Append(calls, "validate")
    /\ ret' = ZeroResult
    /\ err' = "failed to extract required profile information"
    /\ Println("stderr", "Error during crawling", "failed to extract required profile information")
    /\ pc' = "exit"
    /\ UNCHANGED <<args, doc, pending, result, saveErr, imgErr, fs, fs0>>

\* after collector.Wait(): the record is returned to main
ValidateOk ==
    /\ pc = "html"
    /\ pending = <<>>
    /\ ~MissingRequired(result)
    /\ calls' = Append(calls, "validate")
    /\ ret' = result
    /\ err' = "nil"
    /\ pc' = "save"
    /\ UNCHANGED <<args, doc, pending, result, saveErr, imgErr, fs, fs0, out>>

\* saveResultToFile: os.WriteFile succeeds
SaveOk ==
    /\ pc = "save"
    /\ calls' = Append(calls, "write")
    /\ fs' = Put(fs, JsonFileName(ret), JsonFile(ret))
    /\ saveErr' = "nil"
    /\ Println("stdout", "Data successfully saved to", JsonFileName(ret))
    /\ pc' = "image"
    /\ UNCHANGED <<args, doc, pending, result, ret, err, imgErr, fs0>>

\* faulty variant: main does not return after the failed save
SaveFails_NoReturn ==
    /\ pc = "save"
    /\ calls' = Append(calls, "write")
    /\ saveErr' = "error writing result to file"
    /\ Println("stderr", "Failed to save result", "error writing result to file")
    /\ pc' = "image"
    /\ UNCHANGED <<args, doc, pending, result, ret, err, imgErr, fs, fs0>>

\* saveResultToFile: os.WriteFile fails; main reports it and returns
SaveFails ==
    /\ pc = "save"
    /\ calls' = Append(calls, "write")
    /\ saveErr' = "error writing result to file"
    /\ Println("stderr", "Failed to save result", "error writing result to file")
    /\ pc' = "exit"
    /\ UNCHANGED <<args, doc, pending, result, ret, err, imgErr, fs, fs0>>

\* main: result.ProfileImg == "", nothing to download
NoImage ==
    /\ pc = "image"
    /\ ret.ProfileImg = ""
    /\ pc' = "exit"
    /\ UNCHANGED <<args, doc, pending, result, ret, err, saveErr, imgErr, fs, fs0, out, calls>>

\* downloadProfileImage(imgURL, fileName) ending with the error e, the
\* file system left as newfs
Download(e, newfs) ==
    /\ pc = "image"
    /\ ret.ProfileImg # ""
    /\ calls' = Append(calls, "download")
    /\ imgErr' = e
    /\ fs' = newfs
    /\ IF e = "nil"
       THEN Println("stdout", "Profile image successfully saved as", ImageFileName(args[2]))
       ELSE Println("stderr", "Failed to download profile image", e)
    /\ pc' = "exit"
    /\ UNCHANGED <<args, doc, pending, result, ret, err, saveErr, fs0>>

\* http.Get fails
DownloadGetFails == Download("failed to download image from", fs)

\* faulty variant: main drops the error of downloadProfileImage
DownloadBadStatus_Unreported ==
    /\ pc = "image"
    /\ ret.ProfileImg # ""
    /\ calls' = Append(calls, "download")
    /\ imgErr' = "failed to download image, status code"
    /\ pc' = "exit"
    /\ UNCHANGED <<args, doc, pending, result, ret, err, saveErr, fs, fs0, out>>

\* response.StatusCode != http.StatusOK
DownloadBadStatus == Download("failed to download image, status code", fs)

\* os.Create fails
DownloadCreateFails == Download("failed to create file", fs)

\* os.Create made or truncated the file, io.Copy fails after none or some
\* of the body
DownloadCopyFails ==
    \E c \in {EmptyFile, PartialFile(ret.ProfileImg)} :
        Download("failed to save image to file", Put(fs, ImageFileName(args[2]), c))

\* the whole body is copied
DownloadOk == Download("nil", Put(fs, ImageFileName(args[2]), ImageFile(ret.ProfileImg)))

Next ==
    \/ Usage
    \/ VisitFails
    \/ VisitOk
    \/ TitleCallback
    \/ LinkButtonCallback
    \/ SocialIconCallback
    \/ ProfileTitleCallback
    \/ ProfileImageCallback
    \/ ValidateFails
    \/ ValidateOk
    \/ SaveOk
    \/ SaveFails
    \/ NoImage
    \/ DownloadGetFails
    \/ DownloadBadStatus
    \/ DownloadCreateFails
    \/ DownloadCopyFails
    \/ DownloadOk

Spec == Init /\ [][Next]_vars

\* The extraction alone, on the pages of RuleDocs
InitRules ==
    /\ Init
    /\ Len(args) >= 2
    /\ fs0 = EmptyMap

NextRules ==
    \/ VisitRulePage
    \/ TitleCallback
    \/ LinkButtonCallback
    \/ SocialIconCallback
    \/ ProfileTitleCallback
    \/ ProfileImageCallback

SpecRules == InitRules /\ [][NextRules]_vars

----------------------------------------------------------------------------
(* Properties *)

Stages == <<"fetch", "validate", "write", "download">>

IsPrefix(s, t) == Len(s) <= Len(t) /\ SubSeq(t, 1, Len(s)) = s

Called(stage) == \E i \in 1..Len(calls) : calls[i] = stage

\* the page was fetched and every callback invocation has been made
Extracted == Called("fetch") /\ err # "failed to visit" /\ pending = <<>>

\* crawlLinktreeProfile has returned after a successful fetch
Returned == Called("validate")

Finished == pc = "exit"

ValidationError == "failed to extract required profile information"

Positions(d, kind) == {i \in 1..Len(d) : d[i].kind = kind}

Max(S) == CHOOSE x \in S : \A y \in S : y <= x

\* the file name was created or modified by the run
Changed(f) ==
    \/ (f \in DOMAIN fs) # (f \in DOMAIN fs0)
    \/ f \in DOMAIN fs /\ f \in DOMAIN fs0 /\ fs[f] # fs0[f]

\* C1: once crawlLinktreeProfile has returned after a successful fetch, it
\* returned the validation error exactly when the extracted title or the
\* extracted profile name is empty, whatever links, icon links and image
\* were extracted; otherwise it returned the extracted record.
C1_ValidationIffMandatoryEmpty ==
    Returned =>
        /\ (err = ValidationError) <=> (result.Title = "" \/ result.ProfileName = "")
        /\ err \in {"nil", ValidationError}
        /\ err = "nil" => ret = result

\* a record with title and profile name, no links, no icon links and no
\* image was returned as valid
C1_Witness ==
    /\ Returned
    /\ err = "nil"
    /\ ret.Title # "" /\ ret.ProfileName # ""
    /\ DOMAIN ret.Links = {} /\ DOMAIN ret.IconLinks = {} /\ ret.ProfileImg = ""

\* C2 as stated: every page with a title node of non-empty text and a
\* profile-title node of non-empty text passes validation.
C2_AnyNonEmptyNodeValidates ==
    (/\ Returned
     /\ \E i \in Positions(doc, "title") : doc[i].text # ""
     /\ \E j \in Positions(doc, "profile") : doc[j].text # "")
        => err = "nil"

\* C2 amended: every page whose last title node and last profile-title
\* node have non-empty text passes validation, whatever link, icon and
\* image nodes it has or lacks.
C2_LastNonEmptyNodeValidates ==
    (/\ Returned
     /\ Positions(doc, "title") # {}
     /\ Positions(doc, "profile") # {}
     /\ doc[Max(Positions(doc, "title"))].text # ""
     /\ doc[Max(Positions(doc, "profile"))].text # "")
        => err = "nil" /\ ret = result

\* a page of a title node and a profile-title node alone was validated
C2_Witness ==
    /\ Returned
    /\ err = "nil"
    /\ Len(doc) = 2
    /\ Positions(doc, "title") # {} /\ Positions(doc, "profile") # {}

\* C3: a fetched page with no title node or no profile-title node fails
\* at validation, and the run writes no file and attempts no download.
C3_MissingNodeFailsValidation ==
    (/\ Called("fetch") /\ err # "failed to visit"
     /\ Positions(doc, "title") = {} \/ Positions(doc, "profile") = {})
        => /\ fs = fs0
           /\ ~Called("write") /\ ~Called("download")
           /\ pc \in {"html", "exit"}
           /\ Finished => err = ValidationError /\ Returned

\* a page with a title and an image of non-empty src but no profile-title
\* node ended in the validation error
C3_Witness ==
    /\ Finished
    /\ err = ValidationError
    /\ Positions(doc, "profile") = {}
    /\ \E i \in Positions(doc, "title") : doc[i].text # ""
    /\ \E i \in Positions(doc, "image") : doc[i].src # ""

\* C4: when the image download fails, the JSON file written before it
\* still holds the validated record, the failure is the last line
\* reported, and the run has ended with the download as its last stage.
C4_DownloadFailureKeepsJson ==
    imgErr # "nil" =>
        /\ Finished
        /\ calls = Stages
        /\ saveErr = "nil"
        /\ (ret.ProfileName \o ".json") \in DOMAIN fs
        /\ fs[ret.ProfileName \o ".json"] = <<"json", Marshal(ret)>>
        /\ out[Len(out)] = <<"stderr", "Failed to download profile image", imgErr>>

\* the download ended on a bad status after the JSON file replaced an
\* earlier one
C4_Witness ==
    /\ Finished
    /\ imgErr = "failed to download image, status code"
    /\ fs0 # EmptyMap
    /\ fs[ret.ProfileName \o ".json"] = <<"json", Marshal(ret)>>

C6_ImageFileOnlyOnSuccess ==
    (Finished /\ Len(args) >= 2) =>
        /\ Changed(args[2] \o ".jpg") =>
               ret.ProfileImg # "" /\ Called("download") /\ imgErr = "nil"
        /\ ret.ProfileImg = "" => ~Called("download")
        /\ imgErr # "nil" => ~Changed(args[2] \o ".jpg")

\* C7: a callback invocation on a link button whose label or href is
\* empty leaves the links mapping as it was, and one on a social icon
\* whose name or href is empty leaves the icon links mapping as it was;
\* neither ends the extraction or reports anything.
C7_EmptyLabelOrHrefSkipped ==
    [][(pc = "html" /\ pending # <<>>) =>
          LET node == Head(pending)
          IN  /\ (node.kind = "link" /\ (TrimSpace(node.label) = <<>> \/ node.href = ""))
                    => result'.Links = result.Links /\ pc' = "html" /\ out' = out
              /\ (node.kind = "icon" /\ (TrimSpace(node.name) = <<>> \/ node.href = ""))
                    => result'.IconLinks = result.IconLinks /\ pc' = "html" /\ out' = out
      ]_vars

\* after extraction the page has more skipped link buttons and social
\* icons than entries
C7_Witness ==
    /\ Extracted
    /\ \E i \in Positions(doc, "link") : doc[i].href = ""
    /\ \E i \in Positions(doc, "icon") : TrimSpace(doc[i].name) = <<>>
    /\ Cardinality(DOMAIN result.Links) = 1
    /\ DOMAIN result.IconLinks = {}
    /\ Len(doc) = 3

\* C8 as stated: of two link buttons with the same label, the links
\* mapping holds the href of the second under that label.
C8_SecondOfTwoWins ==
    Extracted =>
        \A i, j \in Positions(doc, "link") :
            (i < j /\ doc[i].label = doc[j].label) =>
                /\ ChildText(doc[j]) \in DOMAIN result.Links
                /\ result.Links[ChildText(doc[j])] = doc[j].href

\* C8 amended: under every label the links mapping holds the href of
\* the last link button in document order that has that label and a
\* non-empty href, and no entry when the label is empty or no such link
\* button exists.
C8_LastNonEmptyHrefWins ==
    Extracted =>
        \A label \in {TrimSpace(l) : l \in LinkLabels} :
            LET written == {i \in Positions(doc, "link") :
                               ChildText(doc[i]) = label /\ doc[i].href # ""}
            IN  IF label = <<>> \/ written = {}
                THEN label \notin DOMAIN result.Links
                ELSE /\ label \in DOMAIN result.Links
                     /\ result.Links[label] = doc[Max(written)].href

\* two link buttons with one label and different hrefs left one entry,
\* with the href of the second
C8_Witness ==
    /\ Extracted
    /\ \E i, j \in Positions(doc, "link") :
          /\ i < j
          /\ doc[i].label = doc[j].label
          /\ doc[i].href # "" /\ doc[j].href # "" /\ doc[i].href # doc[j].href
          /\ DOMAIN result.Links = {ChildText(doc[j])}
          /\ result.Links[ChildText(doc[j])] = doc[j].href

RulePermutations ==
    {[i \in 1..Len(RuleOrder) |-> RuleOrder[q[i]]] : q \in Permutations(1..Len(RuleOrder))}

\* C9: the record extracted from a page is the record the five rules
\* yield in every one of their permutations.
C9_RuleOrderIrrelevant ==
    (Extracted /\ pc = "html") =>
        LET matches == [rule \in {"title", "link", "icon", "profile", "image"} |->
                           Matches(doc, rule)]
        IN  \A p \in RulePermutations : RunRules(p, matches) = result

\* a page on which each of the five rules wrote its field, the image
\* node first and the title node last
C9_Witness ==
    /\ Extracted /\ pc = "html"
    /\ Len(doc) = 5
    /\ doc[1].kind = "image" /\ doc[5].kind = "title"
    /\ result.Title # "" /\ result.ProfileName # "" /\ result.ProfileImg # ""
    /\ DOMAIN result.Links # {} /\ DOMAIN result.IconLinks # {}

\* C10: after extraction profileImageURL is the src of the last
\* profile-image node in document order whose src is non-empty, and is
\* empty when there is none.
C10_LastNonEmptySrcWins ==
    Extracted =>
        LET set == {i \in Positions(doc, "image") : doc[i].src # ""}
        IN  result.ProfileImg = IF set = {} THEN "" ELSE doc[Max(set)].src

\* two images of different non-empty src were followed by one of empty src
C10_Witness ==
    /\ Extracted
    /\ Len(doc) = 3
    /\ doc[1].kind = "image" /\ doc[2].kind = "image" /\ doc[3].kind = "image"
    /\ doc[1].src # "" /\ doc[2].src # "" /\ doc[1].src # doc[2].src /\ doc[3].src = ""
    /\ result.ProfileImg = doc[2].src

====
